---- MODULE Spec2Model ----
(***************************************************************************)
(* Model of core/gather/gatherers/stacks.js: the Stacks gatherer.          *)
(*                                                                         *)
(*   detectLibraries   runs in the page: one race (probe vs. 1000ms timer) *)
(*                     per catalog entry, strictly in sequence.            *)
(*   detectServer      matches the document's response headers against the *)
(*                     SERVERS table.                                      *)
(*   getDocumentHeaders, collectStacks, getArtifact: the orchestration.    *)
(*                                                                         *)
(* Header names and values are sequences of one-character strings, so that *)
(* toLowerCase and startsWith are computed character by character.  Ids,   *)
(* display names and versions are TLA+ strings.  A JavaScript value whose  *)
(* type matters is a record with a "kind" field.                           *)
(***************************************************************************)
EXTENDS Integers, Sequences, FiniteSets, TLC

VARIABLES
  catalog,        \* the injected d41d8cd98f00b204e9800998ecf8427e_LibraryDetectorTests, as Object.entries order
  devtoolsLog,    \* context.dependencies.DevtoolsLog
  pc,             \* position of the getArtifact/collectStacks/detectLibraries call chain
  i,              \* index of the catalog entry the for-loop is at (1-based)
  timeout,        \* timeout[j]: state of the timer created for entry j
  probe,          \* probe[j]: state of the computation lib.test(window) of entry j
  outcome,        \* outcome[j]: how iteration j left its try block
  awaited,        \* awaited[j]: the value `result` of iteration j
  invoked,        \* invoked[j]: number of calls of lib.test of entry j
  libraries,      \* the array `libraries` of detectLibraries
  headers,        \* the value returned by getDocumentHeaders
  detectedServer, \* the value returned by detectServer
  stacks,         \* the value collectStacks settles with
  artifact        \* the value getArtifact settles with

vars == <<catalog, devtoolsLog, pc, i, timeout, probe, outcome, awaited, invoked,
          libraries, headers, detectedServer, stacks, artifact>>

----------------------------------------------------------------------------
(* JavaScript values *)

JSUndefined == [kind |-> "undefined"]
JSNull == [kind |-> "null"]
JSFalse == [kind |-> "boolean", bool |-> FALSE]
JSNumber(n) == [kind |-> "number", num |-> n]
JSString(s) == [kind |-> "string", str |-> s]
\* an exception propagating out of a call
Thrown == [kind |-> "throw"]
\* a settled-by-rejection promise
Rejected == [kind |-> "rejected"]

\* ToBoolean
truthy(v) ==
  CASE v.kind = "undefined" -> FALSE
    [] v.kind = "null" -> FALSE
    [] v.kind = "boolean" -> v.bool
    [] v.kind = "number" -> v.num # 0
    [] v.kind = "string" -> v.str # ""
    [] OTHER -> TRUE

Digits == <<"0", "1", "2", "3", "4", "5", "6", "7", "8", "9">>

\* String(n) for a non-negative integer n
RECURSIVE String(_)
String(n) ==
  IF n < 10 THEN Digits[n + 1] ELSE String(n \div 10) \o Digits[(n % 10) + 1]

----------------------------------------------------------------------------
(* Character strings of the header mapping *)

UpperChars == <<"A", "B", "C", "D", "E", "F", "G", "H", "I", "J", "K", "L", "M",
                "N", "O", "P", "Q", "R", "S", "T", "U", "V", "W", "X", "Y", "Z">>
LowerChars == <<"a", "b", "c", "d", "e", "f", "g", "h", "i", "j", "k", "l", "m",
                "n", "o", "p", "q", "r", "s", "t", "u", "v", "w", "x", "y", "z">>

\* the lower-case and upper-case partner of each letter
lowerOf ==
  [c \in { UpperChars[k] : k \in DOMAIN UpperChars } |->
    LowerChars[CHOOSE k \in DOMAIN UpperChars : UpperChars[k] = c]]
upperOf ==
  [c \in { LowerChars[k] : k \in DOMAIN LowerChars } |->
    UpperChars[CHOOSE k \in DOMAIN LowerChars : LowerChars[k] = c]]

lowerChar(c) == IF c \in DOMAIN lowerOf THEN lowerOf[c] ELSE c

upperChar(c) == IF c \in DOMAIN upperOf THEN upperOf[c] ELSE c

\* String.prototype.toLowerCase
toLowerCase(s) == [k \in 1..Len(s) |-> lowerChar(s[k])]

\* String.prototype.toUpperCase (used to build inputs only)
toUpperCase(s) == [k \in 1..Len(s) |-> upperChar(s[k])]

\* first letter in upper case, as in "Server" (used to build inputs only)
capitalize(s) == [k \in 1..Len(s) |-> IF k = 1 THEN upperChar(s[k]) ELSE s[k]]

\* String.prototype.startsWith
startsWith(s, prefix) ==
  /\ Len(prefix) <= Len(s)
  /\ SubSeq(s, 1, Len(prefix)) = prefix

----------------------------------------------------------------------------
(* detectServer *)

\* header names and required prefixes of the SERVERS table
x_akamai_transformed == <<"x", "-", "a", "k", "a", "m", "a", "i", "-", "t", "r", "a", "n", "s", "f", "o", "r", "m", "e", "d">>
x_wix_request_id == <<"x", "-", "w", "i", "x", "-", "r", "e", "q", "u", "e", "s", "t", "-", "i", "d">>
server == <<"s", "e", "r", "v", "e", "r">>
apache == <<"a", "p", "a", "c", "h", "e">>
cloudflare == <<"c", "l", "o", "u", "d", "f", "l", "a", "r", "e">>
litespeed == <<"l", "i", "t", "e", "s", "p", "e", "e", "d">>
microsoft_iis == <<"m", "i", "c", "r", "o", "s", "o", "f", "t", "-", "i", "i", "s">>
nginx == <<"n", "g", "i", "n", "x">>
openresty == <<"o", "p", "e", "n", "r", "e", "s", "t", "y">>
squarespace == <<"s", "q", "u", "a", "r", "e", "s", "p", "a", "c", "e">>
vercel == <<"v", "e", "r", "c", "e", "l">>

\* one matcher of a signature: the entry [header, value] of its `headers` object
Matcher(header, value) == [header |-> header, value |-> value]

SERVERS == <<
  [id |-> "akamai", name |-> "Akamai", headers |-> <<Matcher(x_akamai_transformed, <<>>)>>],
  [id |-> "apache", name |-> "Apache", headers |-> <<Matcher(server, apache)>>],
  [id |-> "cloudflare", name |-> "Cloudflare", headers |-> <<Matcher(server, cloudflare)>>],
  [id |-> "litespeed", name |-> "LiteSpeed", headers |-> <<Matcher(server, litespeed)>>],
  [id |-> "microsoft-iis", name |-> "Microsoft IIS", headers |-> <<Matcher(server, microsoft_iis)>>],
  [id |-> "nginx", name |-> "Nginx", headers |-> <<Matcher(server, nginx)>>],
  [id |-> "openresty", name |-> "OpenResty", headers |-> <<Matcher(server, openresty)>>],
  [id |-> "squarespace", name |-> "Squarespace", headers |-> <<Matcher(server, squarespace)>>],
  [id |-> "vercel", name |-> "Vercel", headers |-> <<Matcher(server, vercel)>>],
  [id |-> "wix", name |-> "WIX", headers |-> <<Matcher(x_wix_request_id, <<>>)>>] >>

\* A header mapping is [kind |-> "object", entries |-> <<[key, value], ...>>], the
\* entries in Object.entries order with pairwise distinct keys.
HeadersObject(entries) == [kind |-> "object", entries |-> entries]

\* Object.fromEntries of a sequence of [key, value]: a later entry overwrites an
\* earlier one with the same key.
fromEntries(es) ==
  [n \in {es[k].key : k \in DOMAIN es} |->
    es[CHOOSE k \in DOMAIN es :
         /\ es[k].key = n
         /\ \A m \in DOMAIN es : es[m].key = n => m <= k].value]

\* the mutation of documentHeaders that lowercases the names only
documentHeaders_namesOnly(h) ==
  fromEntries([k \in DOMAIN h.entries |->
    [key |-> toLowerCase(h.entries[k].key), value |-> h.entries[k].value]])

\* const documentHeaders = Object.fromEntries(Object.entries(headers).map(...))
documentHeaders(h) ==
  fromEntries([k \in DOMAIN h.entries |->
    [key |-> toLowerCase(h.entries[k].key), value |-> toLowerCase(h.entries[k].value)]])

\* Object.entries(server.headers).some(([header, value]) =>
\*   documentHeaders[header] && documentHeaders[header].startsWith(value))
\* documentHeaders[header] is undefined for a missing name; "" is falsy as well.
matched(srv, dh) ==
  \E m \in DOMAIN srv.headers :
    LET header == srv.headers[m].header
        value == srv.headers[m].value
    IN /\ header \in DOMAIN dh
       /\ Len(dh[header]) > 0
       /\ startsWith(dh[header], value)

\* for (const server of SERVERS), from table index k on
RECURSIVE detectServerFrom(_, _)
detectServerFrom(dh, k) ==
  IF k > Len(SERVERS) THEN JSUndefined
  ELSE IF matched(SERVERS[k], dh)
    THEN [detector |-> "server", id |-> SERVERS[k].id, name |-> SERVERS[k].name]
    ELSE detectServerFrom(dh, k + 1)

\* detectServer(headers); Object.entries(undefined) throws a TypeError
detectServer(h) ==
  IF h.kind # "object" THEN Thrown ELSE detectServerFrom(documentHeaders(h), 1)

----------------------------------------------------------------------------
(* Stacks.getDocumentHeaders *)

\* A log entry is [method, params]; params is undefined or
\* [kind |-> "object", type, response]; response is undefined or
\* [kind |-> "object", headers]; headers is undefined or a header mapping.
ResponseOf(h) == [kind |-> "object", headers |-> h]
ParamsOf(type, response) == [kind |-> "object", type |-> type, response |-> response]
LogEntry(method, params) == [method |-> method, params |-> params]

\* the mutation of getDocumentHeadersFrom that does not look at params.type
RECURSIVE getDocumentHeadersFrom_anyType(_, _)
getDocumentHeadersFrom_anyType(log, k) ==
  IF k > Len(log) THEN HeadersObject(<<>>)
  ELSE LET entry == log[k] IN
    IF entry.method # "Network.responseReceived"
      THEN getDocumentHeadersFrom_anyType(log, k + 1)
    ELSE IF entry.params.kind = "undefined" THEN Thrown
    ELSE IF entry.params.response.kind = "undefined" THEN Thrown
    ELSE entry.params.response.headers

\* for (const entry of devtoolsLog), from log index k on; reading a property
\* of undefined throws a TypeError
RECURSIVE getDocumentHeadersFrom(_, _)
getDocumentHeadersFrom(log, k) ==
  IF k > Len(log) THEN HeadersObject(<<>>)
  ELSE LET entry == log[k] IN
    IF entry.method # "Network.responseReceived"
      THEN getDocumentHeadersFrom(log, k + 1)
    ELSE IF entry.params.kind = "undefined" THEN Thrown
    ELSE IF entry.params.type # "Document"
      THEN getDocumentHeadersFrom(log, k + 1)
    ELSE IF entry.params.response.kind = "undefined" THEN Thrown
    ELSE entry.params.response.headers

getDocumentHeaders(log) == getDocumentHeadersFrom(log, 1)

----------------------------------------------------------------------------
(* Values the promises of the call chain settle with *)

Pending == [kind |-> "pending"]
Array(items) == [kind |-> "array", items |-> items]

----------------------------------------------------------------------------
(* Bounds and inputs *)

\* longest catalog
MaxCatalog == 2
\* longest network log of LogSpec
MaxLog == 3
\* most headers of a header mapping of ServerSpec
MaxHeaders == 2

\* catalog entries [name, lib]: the key and the JSLibraryDetectorTest (id, npm;
\* its `test` is the environment's choice in InvokeProbe)
LibraryPool ==
  { [name |-> "jQuery", lib |-> [id |-> "jquery", npm |-> JSString("jquery-npm")]],
    [name |-> "React", lib |-> [id |-> "react", npm |-> JSNull]],
    [name |-> "Anonymous", lib |-> [id |-> "", npm |-> JSString("")]] }

\* catalogs: Object.entries of an object, so the keys are pairwise distinct
Catalogs ==
  { c \in UNION { [1..n -> LibraryPool] : n \in 0..MaxCatalog } :
      \A a, b \in DOMAIN c : a # b => c[a].name # c[b].name }

\* the `version` a probe can report
Versions ==
  { JSNumber(0), JSNumber(12), JSString("1.2.3"), JSString(""), JSNull, JSUndefined }

\* JSLibraryDetectorTestResult: false | {version}
ProbeResults == { JSFalse } \cup { [kind |-> "object", version |-> v] : v \in Versions }

\* what a call lib.test(window) can do: throw, return a pending promise, or
\* return a result
ProbeReturns == { Thrown, Pending } \cup ProbeResults

\* header mappings carried by log entries
NginxHeaders == HeadersObject(<<[key |-> capitalize(server), value |-> toUpperCase(nginx)]>>)
CloudflareHeaders == HeadersObject(<<[key |-> server, value |-> cloudflare]>>)

Methods == { "Network.responseReceived", "Network.requestWillBeSent" }
ResourceTypes == { "Document", "Script" }

\* entries of the protocol's shape
WellFormedEntries ==
  { LogEntry(m, ParamsOf(t, ResponseOf(h))) :
      m \in Methods, t \in ResourceTypes, h \in { NginxHeaders, CloudflareHeaders } }

\* entries that lack params, the response or the headers
NoParamsEntry == LogEntry("Network.responseReceived", JSUndefined)
NoResponseEntry == LogEntry("Network.responseReceived", ParamsOf("Document", JSUndefined))
NoHeadersEntry ==
  LogEntry("Network.responseReceived", ParamsOf("Document", ResponseOf(JSUndefined)))
MalformedEntries == { NoParamsEntry, NoResponseEntry, NoHeadersEntry }

LogEntries == WellFormedEntries \cup MalformedEntries

Logs == UNION { [1..n -> LogEntries] : n \in 0..MaxLog }

\* the logs of a whole run
RunLogs ==
  { <<>>,
    << LogEntry("Network.responseReceived", ParamsOf("Script", ResponseOf(CloudflareHeaders))),
       LogEntry("Network.responseReceived", ParamsOf("Document", ResponseOf(NginxHeaders))) >>,
    << NoParamsEntry >>,
    << NoHeadersEntry >> }

\* headers of ServerSpec
ServerNames == { server, capitalize(server) }
ServerValues ==
  { <<>>, nginx \o <<"/", "1", ".", "2">>, toUpperCase(nginx), capitalize(apache),
    cloudflare, capitalize(litespeed), toUpperCase(microsoft_iis) \o <<"/", "1", "0">>,
    openresty, capitalize(squarespace), capitalize(vercel), <<"g", "w", "s">> }
OtherNames ==
  { x_akamai_transformed, capitalize(x_akamai_transformed), x_wix_request_id,
    toUpperCase(x_wix_request_id), <<"v", "i", "a">> }
OtherValues == { <<>>, <<"9", " ", "-", " ", "0">> }

HeaderPool ==
  { [key |-> n, value |-> v] : n \in ServerNames, v \in ServerValues }
    \cup { [key |-> n, value |-> v] : n \in OtherNames, v \in OtherValues }

HeaderMaps ==
  { HeadersObject(es) : es \in
      { e \in UNION { [1..n -> HeaderPool] : n \in 0..MaxHeaders } :
          \A a, b \in DOMAIN e : a # b => e[a].key # e[b].key } }

----------------------------------------------------------------------------
(* detectLibraries: the page side *)

\* the mutation of JSLibrary that takes id from the key and name from the test
JSLibrary_swapped(name, lib, result) ==
  [id |-> name, name |-> lib.id, version |-> result.version, npm |-> lib.npm]

\* libraries.push({id: lib.id, name: name, version: result.version, npm: lib.npm})
JSLibrary(name, lib, result) ==
  [id |-> lib.id, name |-> name, version |-> result.version, npm |-> lib.npm]

\* The page's thread is running detectLibraries (between two awaits): no timer
\* callback and no probe completion can run before it yields.
PageBusy == pc \in { "loop", "settled" }

\* The race of entry j is the one detectLibraries is awaiting.
Awaiting(j) == pc = "await" /\ i = j

\* getArtifact -> collectStacks -> executionContext.evaluate(detectLibraries, ...):
\* detectLibraries starts in the page.
CallEvaluate ==
  /\ pc = "start"
  /\ pc' = "loop"
  /\ i' = 1
  /\ libraries' = <<>>
  /\ UNCHANGED <<catalog, devtoolsLog, timeout, probe, outcome, awaited, invoked,
                 headers, detectedServer, stacks, artifact>>

\* the mutation of InvokeProbe that does not await the race of a pending
\* probe before going on to the next entry
InvokeProbe_noAwait(r) ==
  /\ pc = "loop"
  /\ i <= Len(catalog)
  /\ timeout' = [timeout EXCEPT ![i] = "pending"]
  /\ invoked' = [invoked EXCEPT ![i] = @ + 1]
  /\ IF r = Thrown
       THEN /\ probe' = [probe EXCEPT ![i] = "settled"]
            /\ outcome' = [outcome EXCEPT ![i] = "threw"]
            /\ i' = i + 1
            /\ pc' = "loop"
            /\ UNCHANGED awaited
     ELSE IF r = Pending
       THEN /\ probe' = [probe EXCEPT ![i] = "pending"]
            /\ i' = i + 1
            /\ pc' = "loop"
            /\ UNCHANGED <<outcome, awaited>>
     ELSE /\ probe' = [probe EXCEPT ![i] = "settled"]
          /\ outcome' = [outcome EXCEPT ![i] = "value"]
          /\ awaited' = [awaited EXCEPT ![i] = r]
          /\ pc' = "settled"
          /\ UNCHANGED i
  /\ UNCHANGED <<catalog, devtoolsLog, libraries, headers, detectedServer, stacks, artifact>>

\* One pass through the head of the try block for entry i: the timer is
\* created, lib.test(window) is called and returns r or throws.
\*   throws:   catch (e) {} and the loop goes on; clearTimeout is skipped.
\*   pending:  Promise.race is awaited.
\*   a value:  Promise.race resolves with it ahead of the timer.
InvokeProbe(r) ==
  /\ pc = "loop"
  /\ i <= Len(catalog)
  /\ timeout' = [timeout EXCEPT ![i] = "pending"]
  /\ invoked' = [invoked EXCEPT ![i] = @ + 1]
  /\ IF r = Thrown
       THEN /\ probe' = [probe EXCEPT ![i] = "settled"]
            /\ outcome' = [outcome EXCEPT ![i] = "threw"]
            /\ i' = i + 1
            /\ pc' = "loop"
            /\ UNCHANGED awaited
     ELSE IF r = Pending
       THEN /\ probe' = [probe EXCEPT ![i] = "pending"]
            /\ pc' = "await"
            /\ UNCHANGED <<outcome, awaited, i>>
     ELSE /\ probe' = [probe EXCEPT ![i] = "settled"]
          /\ outcome' = [outcome EXCEPT ![i] = "value"]
          /\ awaited' = [awaited EXCEPT ![i] = r]
          /\ pc' = "settled"
          /\ UNCHANGED i
  /\ UNCHANGED <<catalog, devtoolsLog, libraries, headers, detectedServer, stacks, artifact>>

\* the mutation of ProbeResolves in which a result that arrives after the race
\* was lost is still pushed when truthy
ProbeResolves_recordsLate(j, r) ==
  /\ ~PageBusy
  /\ j \in DOMAIN probe
  /\ probe[j] = "pending"
  /\ probe' = [probe EXCEPT ![j] =
                 IF ~Awaiting(j) /\ truthy(r) THEN "resolvedLate" ELSE "settled"]
  /\ IF Awaiting(j)
       THEN /\ outcome' = [outcome EXCEPT ![j] = "value"]
            /\ awaited' = [awaited EXCEPT ![j] = r]
            /\ pc' = "settled"
            /\ UNCHANGED libraries
       ELSE /\ libraries' =
                 IF truthy(r)
                   THEN Append(libraries, JSLibrary(catalog[j].name, catalog[j].lib, r))
                   ELSE libraries
            /\ UNCHANGED <<outcome, awaited, pc>>
  /\ UNCHANGED <<catalog, devtoolsLog, i, timeout, invoked, headers,
                 detectedServer, stacks, artifact>>

\* The pending promise returned by the probe of entry j resolves with r.  It
\* wins the race when the race is still being awaited; otherwise nobody listens:
\* the race has settled (probe[j] then records "resolvedLate" for a truthy r,
\* which nothing reads).
ProbeResolves(j, r) ==
  /\ ~PageBusy
  /\ j \in DOMAIN probe
  /\ probe[j] = "pending"
  /\ probe' = [probe EXCEPT ![j] =
                 IF ~Awaiting(j) /\ truthy(r) THEN "resolvedLate" ELSE "settled"]
  /\ IF Awaiting(j)
       THEN /\ outcome' = [outcome EXCEPT ![j] = "value"]
            /\ awaited' = [awaited EXCEPT ![j] = r]
            /\ pc' = "settled"
       ELSE UNCHANGED <<outcome, awaited, pc>>
  /\ UNCHANGED <<catalog, devtoolsLog, i, timeout, invoked, libraries, headers,
                 detectedServer, stacks, artifact>>

\* the mutation of ProbeRejects in which the entry is tried again after a
\* rejection
ProbeRejects_retry(j) ==
  /\ ~PageBusy
  /\ j \in DOMAIN probe
  /\ probe[j] = "pending"
  /\ probe' = [probe EXCEPT ![j] = "settled"]
  /\ IF Awaiting(j)
       THEN /\ outcome' = [outcome EXCEPT ![j] = "rejected"]
            /\ pc' = "loop"
            /\ UNCHANGED i
       ELSE UNCHANGED <<outcome, i, pc>>
  /\ UNCHANGED <<catalog, devtoolsLog, timeout, awaited, invoked, libraries, headers,
                 detectedServer, stacks, artifact>>

\* the mutation of ProbeRejects in which a rejection ends the loop
ProbeRejects_abort(j) ==
  /\ ~PageBusy
  /\ j \in DOMAIN probe
  /\ probe[j] = "pending"
  /\ probe' = [probe EXCEPT ![j] = "settled"]
  /\ IF Awaiting(j)
       THEN /\ outcome' = [outcome EXCEPT ![j] = "rejected"]
            /\ i' = Len(catalog) + 1
            /\ pc' = "loop"
       ELSE UNCHANGED <<outcome, i, pc>>
  /\ UNCHANGED <<catalog, devtoolsLog, timeout, awaited, invoked, libraries, headers,
                 detectedServer, stacks, artifact>>

\* The pending promise returned by the probe of entry j rejects.  When the race
\* is still awaited the await throws: catch (e) {} and the loop goes on;
\* clearTimeout is skipped.
ProbeRejects(j) ==
  /\ ~PageBusy
  /\ j \in DOMAIN probe
  /\ probe[j] = "pending"
  /\ probe' = [probe EXCEPT ![j] = "settled"]
  /\ IF Awaiting(j)
       THEN /\ outcome' = [outcome EXCEPT ![j] = "rejected"]
            /\ i' = i + 1
            /\ pc' = "loop"
       ELSE UNCHANGED <<outcome, i, pc>>
  /\ UNCHANGED <<catalog, devtoolsLog, timeout, awaited, invoked, libraries, headers,
                 detectedServer, stacks, artifact>>

\* the mutation of TimerFires whose callback does not resolve timeoutPromise
TimerFires_noResolve(j) ==
  /\ ~PageBusy
  /\ j \in DOMAIN timeout
  /\ timeout[j] = "pending"
  /\ timeout' = [timeout EXCEPT ![j] = "fired"]
  /\ UNCHANGED <<catalog, devtoolsLog, pc, i, probe, outcome, awaited, invoked,
                 libraries, headers, detectedServer, stacks, artifact>>

\* setTimeout(() => r(false), 1000) of entry j runs its callback: timeoutPromise
\* resolves with false and wins the race when the race is still being awaited.
TimerFires(j) ==
  /\ ~PageBusy
  /\ j \in DOMAIN timeout
  /\ timeout[j] = "pending"
  /\ timeout' = [timeout EXCEPT ![j] = "fired"]
  /\ IF Awaiting(j)
       THEN /\ outcome' = [outcome EXCEPT ![j] = "timeout"]
            /\ awaited' = [awaited EXCEPT ![j] = JSFalse]
            /\ pc' = "settled"
       ELSE UNCHANGED <<outcome, awaited, pc>>
  /\ UNCHANGED <<catalog, devtoolsLog, i, probe, invoked, libraries, headers,
                 detectedServer, stacks, artifact>>

\* After the await: clearTimeout, the push when result is truthy, next entry.
AfterRace ==
  /\ pc = "settled"
  /\ timeout' = [timeout EXCEPT ![i] = IF @ = "pending" THEN "cleared" ELSE @]
  /\ libraries' =
       IF truthy(awaited[i])
         THEN Append(libraries, JSLibrary(catalog[i].name, catalog[i].lib, awaited[i]))
         ELSE libraries
  /\ i' = i + 1
  /\ pc' = "loop"
  /\ UNCHANGED <<catalog, devtoolsLog, probe, outcome, awaited, invoked, headers,
                 detectedServer, stacks, artifact>>

\* return libraries: evaluate resolves with the array.
DetectLibrariesReturns ==
  /\ pc = "loop"
  /\ i > Len(catalog)
  /\ pc' = "evaluated"
  /\ UNCHANGED <<catalog, devtoolsLog, i, timeout, probe, outcome, awaited, invoked,
                 libraries, headers, detectedServer, stacks, artifact>>

----------------------------------------------------------------------------
(* Stacks.collectStacks and Stacks.getArtifact: the Node side *)

\* the mutation of StackEntry that tests the version for truthiness before
\* looking at its type
StackEntry_falsyNumber(lib) ==
  [detector |-> "js",
   id |-> lib.id,
   name |-> lib.name,
   version |-> IF ~truthy(lib.version) THEN JSUndefined
               ELSE IF lib.version.kind = "number" THEN JSString(String(lib.version.num))
               ELSE lib.version,
   npm |-> IF truthy(lib.npm) THEN lib.npm ELSE JSUndefined]

\* jsLibraries.map(lib => ({detector: 'js', id, name, version, npm}))
StackEntry(lib) ==
  [detector |-> "js",
   id |-> lib.id,
   name |-> lib.name,
   version |-> IF lib.version.kind = "number" THEN JSString(String(lib.version.num))
               ELSE IF truthy(lib.version) THEN lib.version ELSE JSUndefined,
   npm |-> IF truthy(lib.npm) THEN lib.npm ELSE JSUndefined]

\* the mutation of pushServer that puts the server entry first
pushServer_unshift(entries, srv) ==
  IF srv # JSUndefined THEN <<srv>> \o entries ELSE entries

\* if (detectedServer) stacks.push(detectedServer)
pushServer(entries, srv) ==
  IF srv # JSUndefined THEN Append(entries, srv) ELSE entries

\* the rest of collectStacks once evaluate has resolved with jsLibraries; an
\* exception of getDocumentHeaders or detectServer rejects collectStacks
collectStacks(jsLibraries, log, hdrs, srv) ==
  IF hdrs = Thrown \/ srv = Thrown
    THEN Rejected
    ELSE Array(pushServer([k \in DOMAIN jsLibraries |-> StackEntry(jsLibraries[k])], srv))

\* executionContext.evaluate rejects: the await in collectStacks throws and
\* collectStacks rejects.
EvaluateRejects ==
  /\ pc = "start"
  /\ stacks' = Rejected
  /\ pc' = "collected"
  /\ UNCHANGED <<catalog, devtoolsLog, i, timeout, probe, outcome, awaited, invoked,
                 libraries, headers, detectedServer, artifact>>

\* collectStacks resumes with jsLibraries: the map, getDocumentHeaders,
\* detectServer, the push, the return.
CollectStacksResumes ==
  /\ pc = "evaluated"
  /\ headers' = getDocumentHeaders(devtoolsLog)
  /\ detectedServer' = IF headers' = Thrown THEN Thrown ELSE detectServer(headers')
  /\ stacks' = collectStacks(libraries, devtoolsLog, headers', detectedServer')
  /\ pc' = "collected"
  /\ UNCHANGED <<catalog, devtoolsLog, i, timeout, probe, outcome, awaited, invoked,
                 libraries, artifact>>

\* the mutation of getArtifactResult whose catch returns the library entries
\* built so far
getArtifactResult_partial(settled) ==
  IF settled = Rejected
    THEN Array([k \in DOMAIN libraries |-> StackEntry(libraries[k])])
    ELSE settled

\* the mutation of getArtifactResult without the try/catch
getArtifactResult_noCatch(settled) == settled

\* try { return await Stacks.collectStacks(...) } catch { return [] }
getArtifactResult(settled) ==
  IF settled = Rejected THEN Array(<<>>) ELSE settled

\* getArtifact resumes when collectStacks has settled.
GetArtifactSettles ==
  /\ pc = "collected"
  /\ artifact' = getArtifactResult(stacks)
  /\ pc' = "done"
  /\ UNCHANGED <<catalog, devtoolsLog, i, timeout, probe, outcome, awaited, invoked,
                 libraries, headers, detectedServer, stacks>>

----------------------------------------------------------------------------
(* Specification of one run of getArtifact *)

Idle(c) == [j \in DOMAIN c |-> "none"]

Init ==
  /\ catalog \in Catalogs
  /\ devtoolsLog \in RunLogs
  /\ pc = "start"
  /\ i = 0
  /\ timeout = Idle(catalog)
  /\ probe = Idle(catalog)
  /\ outcome = Idle(catalog)
  /\ awaited = [j \in DOMAIN catalog |-> JSUndefined]
  /\ invoked = [j \in DOMAIN catalog |-> 0]
  /\ libraries = <<>>
  /\ headers = JSUndefined
  /\ detectedServer = JSUndefined
  /\ stacks = Pending
  /\ artifact = Pending

Next ==
  \/ CallEvaluate
  \/ EvaluateRejects
  \/ \E r \in ProbeReturns : InvokeProbe(r)
  \/ \E j \in DOMAIN catalog : \E r \in ProbeResults : ProbeResolves(j, r)
  \/ \E j \in DOMAIN catalog : ProbeRejects(j)
  \/ \E j \in DOMAIN catalog : TimerFires(j)
  \/ AfterRace
  \/ DetectLibrariesReturns
  \/ CollectStacksResumes
  \/ GetArtifactSettles

Spec == Init /\ [][Next]_vars

\* a step of the page's event loop that detectLibraries is waiting for: the
\* next synchronous stretch of the function, or the callback of an armed timer
PageStep ==
  \/ \E r \in ProbeReturns : InvokeProbe(r)
  \/ \E j \in DOMAIN catalog : TimerFires(j)
  \/ AfterRace
  \/ DetectLibrariesReturns

\* The page's event loop runs the function's continuation when it is ready
\* and the callback of every armed timer; nothing obliges a probe's promise to
\* settle.
FairSpec == Spec /\ WF_vars(PageStep)

----------------------------------------------------------------------------
(* Specification of detectServer alone, over header mappings *)

InitServer ==
  /\ headers \in HeaderMaps
  /\ pc = "detectServer"
  /\ detectedServer = JSUndefined
  /\ catalog = <<>>
  /\ devtoolsLog = <<>>
  /\ i = 0
  /\ timeout = <<>>
  /\ probe = <<>>
  /\ outcome = <<>>
  /\ awaited = <<>>
  /\ invoked = <<>>
  /\ libraries = <<>>
  /\ stacks = Pending
  /\ artifact = Pending

DetectServerCall ==
  /\ pc = "detectServer"
  /\ detectedServer' = detectServer(headers)
  /\ pc' = "detectServerDone"
  /\ UNCHANGED <<catalog, devtoolsLog, i, timeout, probe, outcome, awaited, invoked,
                 libraries, headers, stacks, artifact>>

NextServer == DetectServerCall

ServerSpec == InitServer /\ [][NextServer]_vars

----------------------------------------------------------------------------
(* Specification of getDocumentHeaders alone, over network logs *)

InitLog ==
  /\ devtoolsLog \in Logs
  /\ pc = "getDocumentHeaders"
  /\ headers = JSUndefined
  /\ detectedServer = JSUndefined
  /\ catalog = <<>>
  /\ i = 0
  /\ timeout = <<>>
  /\ probe = <<>>
  /\ outcome = <<>>
  /\ awaited = <<>>
  /\ invoked = <<>>
  /\ libraries = <<>>
  /\ stacks = Pending
  /\ artifact = Pending

GetDocumentHeadersCall ==
  /\ pc = "getDocumentHeaders"
  /\ headers' = getDocumentHeaders(devtoolsLog)
  /\ pc' = "getDocumentHeadersDone"
  /\ UNCHANGED <<catalog, devtoolsLog, i, timeout, probe, outcome, awaited, invoked,
                 libraries, detectedServer, stacks, artifact>>

NextLog == GetDocumentHeadersCall

LogSpec == InitLog /\ [][NextLog]_vars

----------------------------------------------------------------------------
(* Vocabulary of the properties *)

\* detectLibraries has returned its array
DetectReturned == pc \in { "evaluated", "collected", "done" } /\ i > Len(catalog)

\* detectLibraries is running
Detecting == pc \in { "loop", "await", "settled" }

\* iteration j is over: the loop has moved past entry j
Handled(j) == j < i \/ DetectReturned

\* the probe of entry j produced a truthy result before its timer fired
Matched(j) == outcome[j] = "value" /\ truthy(awaited[j])

\* a library entry with the catalog key of entry j is in the sequence s
HasName(s, j) == \E k \in DOMAIN s : s[k].name = catalog[j].name

\* the entries detectLibraries owes after the first n catalog entries, from
\* the catalog and the probes' outcomes
RECURSIVE ExpectedLibraries(_)
ExpectedLibraries(n) ==
  IF n = 0 THEN <<>>
  ELSE IF Matched(n)
    THEN Append(ExpectedLibraries(n - 1),
                [id |-> catalog[n].lib.id, name |-> catalog[n].name,
                 version |-> awaited[n].version, npm |-> catalog[n].lib.npm])
    ELSE ExpectedLibraries(n - 1)

\* the sequences collectStacks and getArtifact have returned
ReturnedSequences ==
  { v.items : v \in { w \in { stacks, artifact } : w.kind = "array" } }

\* s is a prefix of t
IsPrefix(s, t) == Len(s) <= Len(t) /\ SubSeq(t, 1, Len(s)) = s

----------------------------------------------------------------------------
(* C1 *)

\* C1: getArtifact never rejects: it has either not settled yet or settled with
\* a sequence, whatever evaluate and the network log did; and when collectStacks
\* rejected (evaluate rejected, getDocumentHeaders or detectServer threw) the
\* sequence is empty.
C1_GetArtifactNeverRejects ==
  /\ artifact # Rejected
  /\ pc = "done" => artifact.kind = "array"
  /\ (pc = "done" /\ stacks = Rejected) => artifact = Array(<<>>)

\* getDocumentHeaders threw after libraries were detected, and getArtifact
\* returned []
C1_Witness ==
  /\ pc = "done"
  /\ libraries # <<>>
  /\ headers = Thrown
  /\ stacks = Rejected
  /\ artifact = Array(<<>>)

----------------------------------------------------------------------------
(* C2 *)

\* C2: under fair timers a running detectLibraries always comes to return,
\* also when probes stay pending for ever, and at its return an entry whose
\* race the timer won has result false and is not in the result, while every
\* entry whose probe produced a truthy result before its timer is in it.
C2_NeverSettlingProbe ==
  Detecting ~>
    /\ DetectReturned
    /\ \A j \in DOMAIN catalog :
         /\ outcome[j] = "timeout" => (awaited[j] = JSFalse /\ ~HasName(libraries, j))
         /\ Matched(j) => HasName(libraries, j)

\* detectLibraries returned although the probe of one entry is still pending
\* after its timer won, and another entry matched
C2_Witness ==
  /\ DetectReturned
  /\ \E j, k \in DOMAIN catalog :
       /\ outcome[j] = "timeout"
       /\ probe[j] = "pending"
       /\ timeout[j] = "fired"
       /\ Matched(k)
       /\ HasName(libraries, k)
       /\ ~HasName(libraries, j)

----------------------------------------------------------------------------
(* C3 *)

\* C3: an entry whose probe threw or rejected is not in the result; the step
\* in which it fails keeps the accumulated entries and moves the loop to the
\* next entry; no step ever removes an accumulated entry; and when
\* detectLibraries returns, every entry of the catalog has been probed.
C3_FailingProbeIsSkipped ==
  /\ [](\A j \in DOMAIN catalog :
          outcome[j] \in { "threw", "rejected" } => ~HasName(libraries, j))
  /\ [][\A j \in DOMAIN catalog :
          (outcome[j] = "none" /\ outcome'[j] \in { "threw", "rejected" })
            => (libraries' = libraries /\ i' = j + 1 /\ pc' = "loop")]_vars
  /\ [][IsPrefix(libraries, libraries')]_vars
  /\ [](DetectReturned => \A j \in DOMAIN catalog : invoked[j] = 1 /\ outcome[j] # "none")

\* the first probe matched, the second rejected, and detectLibraries returned
\* with the first entry
C3_Witness ==
  /\ DetectReturned
  /\ Len(catalog) = 2
  /\ Matched(1)
  /\ outcome[2] = "rejected"
  /\ Len(libraries) = 1
  /\ HasName(libraries, 1)

\* the first probe threw synchronously and the second was still probed and
\* matched
C3_WitnessThrow ==
  /\ DetectReturned
  /\ Len(catalog) = 2
  /\ outcome[1] = "threw"
  /\ Matched(2)
  /\ HasName(libraries, 2)

----------------------------------------------------------------------------
(* C4 *)

\* C4: the library entries are exactly the catalog entries whose probe
\* produced a truthy result before its timer fired, one each and in catalog
\* order, with id and npm from the entry's test and name from the catalog key;
\* collectStacks keeps id and name and drops a falsy npm.
C4_ExactlyTheMatchedEntries ==
  /\ pc = "loop" => libraries = ExpectedLibraries(i - 1)
  /\ DetectReturned => libraries = ExpectedLibraries(Len(catalog))
  /\ stacks.kind = "array" =>
       LET s == stacks.items
           e == ExpectedLibraries(Len(catalog))
       IN /\ Len(s) >= Len(e)
          /\ \A k \in DOMAIN s : s[k].detector = "js" <=> k <= Len(e)
          /\ \A k \in DOMAIN e :
               /\ s[k].id = e[k].id
               /\ s[k].name = e[k].name
               /\ s[k].npm = IF truthy(e[k].npm) THEN e[k].npm ELSE JSUndefined

\* of two entries, one matched and one lost to its timer; the returned entry
\* carries the id "jquery" and npm of jQuery's test under the key "jQuery"
C4_Witness ==
  /\ pc = "collected"
  /\ stacks.kind = "array"
  /\ Len(catalog) = 2
  /\ \E j \in DOMAIN catalog : outcome[j] = "timeout"
  /\ \E k \in DOMAIN stacks.items :
       /\ stacks.items[k].detector = "js"
       /\ stacks.items[k].id = "jquery"
       /\ stacks.items[k].name = "jQuery"
       /\ stacks.items[k].npm = JSString("jquery-npm")

----------------------------------------------------------------------------
(* C5 *)

\* position of the catalog entry with key n
CatalogIndex(n) == CHOOSE j \in DOMAIN catalog : catalog[j].name = n

\* C5: a sequence returned by collectStacks is a run of "js" entries in catalog
\* iteration order followed by at most one "server" entry.
C5_LibrariesThenOneServer ==
  \A s \in ReturnedSequences :
    \E n \in 0..Len(s) :
      /\ Len(s) <= n + 1
      /\ \A k \in 1..n :
           /\ s[k].detector = "js"
           /\ \E j \in DOMAIN catalog : catalog[j].name = s[k].name
      /\ \A k, l \in 1..n : k < l => CatalogIndex(s[k].name) < CatalogIndex(s[l].name)
      /\ \A k \in (n + 1)..Len(s) : s[k].detector = "server"

\* two library entries followed by the server entry
C5_Witness ==
  /\ pc = "collected"
  /\ stacks.kind = "array"
  /\ Len(stacks.items) = 3
  /\ stacks.items[1].detector = "js"
  /\ stacks.items[2].detector = "js"
  /\ stacks.items[3] = [detector |-> "server", id |-> "nginx", name |-> "Nginx"]

----------------------------------------------------------------------------
(* C6, C7 *)

\* the header mapping h has a header whose name is n up to letter case
Present(h, n) == \E k \in DOMAIN h.entries : toLowerCase(h.entries[k].key) = n

\* the lowercased value of the last header of h whose name is n up to case
NormalizedValue(h, n) ==
  LET last == CHOOSE k \in DOMAIN h.entries :
                /\ toLowerCase(h.entries[k].key) = n
                /\ \A m \in DOMAIN h.entries :
                     toLowerCase(h.entries[m].key) = n => m <= k
  IN toLowerCase(h.entries[last].value)

\* a matcher of the signature is satisfied as the specification words it: the
\* header is present and its lowercased value starts with the required
\* substring
Satisfied(sig, h) ==
  \E m \in DOMAIN sig.headers :
    /\ Present(h, sig.headers[m].header)
    /\ startsWith(NormalizedValue(h, sig.headers[m].header), sig.headers[m].value)

\* C6: detectServer returns the first signature in table order that has a
\* satisfied header matcher, as {detector: "server", id, name}, and nothing
\* when no signature has one.
C6_FirstSatisfiedSignature ==
  pc = "detectServerDone" =>
    LET hits == { k \in DOMAIN SERVERS : Satisfied(SERVERS[k], headers) } IN
    IF hits = {} THEN detectedServer = JSUndefined
    ELSE LET first == CHOOSE k \in hits : \A l \in hits : k <= l IN
         detectedServer =
           [detector |-> "server", id |-> SERVERS[first].id, name |-> SERVERS[first].name]

\* the signatures all of whose matchers require the empty substring (akamai, wix)
PresenceOnly == { k \in DOMAIN SERVERS :
                    \A m \in DOMAIN SERVERS[k].headers : SERVERS[k].headers[m].value = <<>> }

\* C7: a matcher with an empty required substring is satisfied whenever its
\* header name is present in the normalized mapping, whatever the value, the
\* empty string included.
C7_PresenceOnlyMatcher ==
  pc = "detectServerDone" =>
    \A k \in PresenceOnly :
      (\E m \in DOMAIN SERVERS[k].headers : Present(headers, SERVERS[k].headers[m].header))
        => matched(SERVERS[k], documentHeaders(headers))

----------------------------------------------------------------------------
(* C8 *)

CaseChanges == { "lower", "upper", "same" }

Recase(how, str) ==
  CASE how = "lower" -> toLowerCase(str)
    [] how = "upper" -> toUpperCase(str)
    [] OTHER -> str

\* the header names of h stay pairwise distinct when lowercased
LowerDistinct(h) ==
  \A a, b \in DOMAIN h.entries :
    a # b => toLowerCase(h.entries[a].key) # toLowerCase(h.entries[b].key)

\* h with the names recased by hn and the values by hv, in every header (k = 0)
\* or in header k alone
RecasedHeaders(h, k, hn, hv) ==
  HeadersObject([m \in DOMAIN h.entries |->
    IF k = 0 \/ k = m
      THEN [key |-> Recase(hn, h.entries[m].key), value |-> Recase(hv, h.entries[m].value)]
      ELSE h.entries[m]])

\* C8: for a header mapping whose names are distinct after lowercasing,
\* changing the letter case of header names or values (of one header or of all)
\* leaves the result of detectServer unchanged.
C8_CaseInvariant ==
  (pc = "detectServerDone" /\ LowerDistinct(headers)) =>
    \A k \in 0..Len(headers.entries) : \A hn, hv \in CaseChanges :
      detectServer(RecasedHeaders(headers, k, hn, hv)) = detectedServer

\* {Server: "NGINX"} was given and the nginx signature returned
C8_Witness ==
  /\ pc = "detectServerDone"
  /\ headers = NginxHeaders
  /\ headers.entries[1].key # server
  /\ headers.entries[1].value # nginx
  /\ detectedServer = [detector |-> "server", id |-> "nginx", name |-> "Nginx"]

----------------------------------------------------------------------------
(* C9 *)

\* entry k of the log is a Document response
IsDocumentResponse(log, k) ==
  /\ log[k].method = "Network.responseReceived"
  /\ log[k].params.kind = "object"
  /\ log[k].params.type = "Document"

\* C9: for a log whose entries have the protocol's shape, getDocumentHeaders
\* returns the headers of the first entry that is a Network.responseReceived
\* of type Document, and the empty mapping when there is none.
C9_FirstDocumentResponse ==
  (pc = "getDocumentHeadersDone"
     /\ \A k \in DOMAIN devtoolsLog : devtoolsLog[k] \in WellFormedEntries) =>
    LET docs == { k \in DOMAIN devtoolsLog : IsDocumentResponse(devtoolsLog, k) } IN
    IF docs = {} THEN headers = HeadersObject(<<>>)
    ELSE LET first == CHOOSE k \in docs : \A l \in docs : k <= l IN
         headers = devtoolsLog[first].params.response.headers

\* a Script response was skipped, and a later Document response with other
\* headers did not override the first
C9_Witness ==
  /\ pc = "getDocumentHeadersDone"
  /\ devtoolsLog =
       << LogEntry("Network.responseReceived", ParamsOf("Script", ResponseOf(CloudflareHeaders))),
          LogEntry("Network.responseReceived", ParamsOf("Document", ResponseOf(NginxHeaders))),
          LogEntry("Network.responseReceived", ParamsOf("Document", ResponseOf(CloudflareHeaders))) >>
  /\ headers = NginxHeaders

----------------------------------------------------------------------------
(* C10 *)

\* C10 as stated: every StackEntry of every returned sequence has a non-empty
\* id, for every catalog.
C10_NonEmptyId ==
  \A s \in ReturnedSequences : \A k \in DOMAIN s : s[k].id # ""

\* C10 amended: the id of a returned entry is the id its source declares: a
\* "js" entry has the id of the test under its catalog key, copied as it is,
\* so it is non-empty when that declared id is; a "server" entry has the
\* non-empty id of a row of the SERVERS table.
C10_IdIsTheDeclaredId ==
  \A s \in ReturnedSequences : \A k \in DOMAIN s :
    IF s[k].detector = "js"
      THEN \E j \in DOMAIN catalog :
             /\ catalog[j].name = s[k].name
             /\ s[k].id = catalog[j].lib.id
             /\ catalog[j].lib.id # "" => s[k].id # ""
      ELSE /\ s[k].id # ""
           /\ \E r \in DOMAIN SERVERS : SERVERS[r].id = s[k].id

\* a returned sequence holds a "js" entry with the declared id "jquery", one
\* with the declared empty id, and the "server" entry
C10_Witness ==
  /\ pc = "done"
  /\ artifact.kind = "array"
  /\ Len(artifact.items) = 3
  /\ \E k \in 1..2 : artifact.items[k].id = "jquery"
  /\ \E k \in 1..2 : artifact.items[k].id = ""
  /\ artifact.items[3].id = "nginx"

----------------------------------------------------------------------------
(* C11 *)

\* the decimal numeral of the numbers a probe reports in this model
Decimal(n) == CASE n = 0 -> "0" [] n = 12 -> "12"

\* the output version of the k-th library entry is what is stated for the
\* reported version v; emptyPassed says whether the empty string counts as a
\* string that is passed through
VersionAsStated(out, v, emptyPassed) ==
  /\ out.kind # "number"
  /\ v.kind = "number" => out = JSString(Decimal(v.num))
  /\ (v.kind = "string" /\ (emptyPassed \/ v.str # "")) => out = v
  /\ (v.kind = "string" /\ ~emptyPassed /\ v.str = "") => out = JSUndefined
  /\ v.kind \in { "null", "undefined" } => out = JSUndefined

\* C11 as stated: in the output of collectStacks a numeric version is its
\* decimal string (0 included), every string version is passed through, a null
\* or absent version gives no version, and the version is never a number.
C11_VersionAsStated ==
  stacks.kind = "array" =>
    LET e == ExpectedLibraries(Len(catalog)) IN
    \A k \in DOMAIN e : VersionAsStated(stacks.items[k].version, e[k].version, TRUE)

\* C11 amended: as stated, except that only a non-empty string version is
\* passed through; the empty string gives no version, like null.
C11_VersionNormalized ==
  stacks.kind = "array" =>
    LET e == ExpectedLibraries(Len(catalog)) IN
    \A k \in DOMAIN e : VersionAsStated(stacks.items[k].version, e[k].version, FALSE)

\* one probe reported the number 0 and its entry has version "0"; another
\* reported the string "1.2.3" and its entry has that version
C11_Witness ==
  /\ pc = "collected"
  /\ stacks.kind = "array"
  /\ Len(catalog) = 2
  /\ Matched(1) /\ awaited[1].version = JSNumber(0)
  /\ stacks.items[1].version = JSString("0")
  /\ Matched(2) /\ awaited[2].version = JSString("1.2.3")
  /\ stacks.items[2].version = JSString("1.2.3")

----------------------------------------------------------------------------
(* C12 *)

\* C12: once the loop has moved past an entry, and when detectLibraries has
\* returned, the timer created for that entry is not pending any more,
\* whatever its probe did.
C12_NoTimerLeftPending ==
  \A j \in DOMAIN catalog : Handled(j) => timeout[j] # "pending"

\* the same for the entries whose race settled with a value or by the timer,
\* the paths on which clearTimeout is reached
C12_ClearedAfterSettledRace ==
  \A j \in DOMAIN catalog :
    (Handled(j) /\ outcome[j] \in { "value", "timeout" }) => timeout[j] \in { "cleared", "fired" }

----------------------------------------------------------------------------
(* C13 *)

\* the probe of entry j resolved with a truthy result after its race was over
ResolvedLate(j) == probe[j] = "resolvedLate"

\* C13: a probe whose promise resolves with a truthy result after its timer
\* won the race is never recorded: the step in which it resolves changes
\* neither the result array nor anything built from it, and no entry with its
\* catalog key is ever in the result.
C13_LateResultDiscarded ==
  /\ [][\A j \in DOMAIN catalog :
          (~ResolvedLate(j) /\ ResolvedLate(j)')
            => /\ libraries' = libraries
               /\ stacks' = stacks
               /\ artifact' = artifact
               /\ awaited' = awaited
               /\ outcome' = outcome]_vars
  /\ [](\A j \in DOMAIN catalog :
          ResolvedLate(j) =>
            /\ outcome[j] = "timeout"
            /\ awaited[j] = JSFalse
            /\ ~HasName(libraries, j)
            /\ \A s \in ReturnedSequences :
                 \A k \in DOMAIN s : s[k].detector = "js" => s[k].name # catalog[j].name)

\* the first probe lost its race to the timer and resolved truthy afterwards;
\* the second matched, and the returned sequence holds the second entry only
C13_Witness ==
  /\ pc = "collected"
  /\ stacks.kind = "array"
  /\ Len(catalog) = 2
  /\ ResolvedLate(1)
  /\ timeout[1] = "fired"
  /\ Matched(2)
  /\ Len(libraries) = 1
  /\ HasName(libraries, 2)
  /\ stacks.items[1].name = catalog[2].name

----------------------------------------------------------------------------
(* C14 *)

\* C14: within one run no probe is ever invoked twice; an entry the loop has
\* moved past, whatever its outcome (a value, the timer, a throw, a rejection),
\* was invoked exactly once, and an entry the loop has not reached was not
\* invoked.
C14_EachProbeInvokedOnce ==
  \A j \in DOMAIN catalog :
    /\ invoked[j] <= 1
    /\ outcome[j] # "none" => invoked[j] = 1
    /\ Handled(j) => invoked[j] = 1
    /\ (Detecting /\ j > i) => invoked[j] = 0

\* detectLibraries returned after one probe timed out and the other rejected,
\* each invoked once
C14_Witness ==
  /\ DetectReturned
  /\ Len(catalog) = 2
  /\ outcome[1] = "timeout"
  /\ outcome[2] = "rejected"
  /\ invoked[1] = 1
  /\ invoked[2] = 1
  /\ libraries = <<>>

----------------------------------------------------------------------------
(* C15 *)

\* a step of collectStacks raised: evaluate rejected (detectLibraries never
\* ran), getDocumentHeaders threw, or detectServer threw
CollectRaised == i = 0 \/ headers = Thrown \/ detectedServer = Thrown

\* detectServer returned a signature
ServerDetected == detectedServer \notin { JSUndefined, Thrown }

\* s is the complete merge: one "js" entry per matched catalog entry, in
\* order, followed by the detected server entry when there is one
CompleteMerge(s) ==
  LET e == ExpectedLibraries(Len(catalog)) IN
  /\ Len(s) = Len(e) + (IF ServerDetected THEN 1 ELSE 0)
  /\ \A k \in DOMAIN e :
       s[k].detector = "js" /\ s[k].id = e[k].id /\ s[k].name = e[k].name
  /\ ServerDetected => s[Len(s)] = detectedServer

\* C15: the result of getArtifact is the empty sequence when a step of
\* collectStacks raised, however many library entries had been built, and the
\* complete merge otherwise; never a part of it.
C15_AllOrNothing ==
  pc = "done" =>
    /\ artifact.kind = "array"
    /\ IF CollectRaised THEN artifact.items = <<>> ELSE CompleteMerge(artifact.items)

\* two libraries were detected, then detectServer threw on the undefined
\* headers of the Document response, and getArtifact returned []
C15_Witness ==
  /\ pc = "done"
  /\ Len(libraries) = 2
  /\ headers = JSUndefined
  /\ detectedServer = Thrown
  /\ artifact = Array(<<>>)

----------------------------------------------------------------------------
(* C16 *)

\* the races that have started and not settled
RacesInFlight == { j \in DOMAIN catalog : invoked[j] = 1 /\ outcome[j] = "none" }

\* C16: probes start one at a time in catalog order: an entry's probe is
\* invoked only when the race of every earlier entry has settled (by a value,
\* its timer, a throw or a rejection); at most one race is in flight, and it is
\* the one the loop awaits; while a pending probe's race is awaited no later
\* probe has started and no later timer exists; and a probe still pending
\* behind the loop had its timer fire before the loop went on.
C16_OneProbeAtATime ==
  /\ \A j, k \in DOMAIN catalog :
       (k < j /\ invoked[j] = 1) => (invoked[k] = 1 /\ outcome[k] # "none")
  /\ Cardinality(RacesInFlight) <= 1
  /\ \A j \in RacesInFlight : Awaiting(j)
  /\ \A j, k \in DOMAIN catalog :
       (Awaiting(j) /\ j < k) => (invoked[k] = 0 /\ timeout[k] = "none")
  /\ \A j \in DOMAIN catalog :
       (probe[j] = "pending" /\ Handled(j)) => (outcome[j] = "timeout" /\ timeout[j] = "fired")

\* the first probe never settled, its timer fired, and only then the second
\* probe was started, whose race is now awaited
C16_Witness ==
  /\ pc = "await"
  /\ i = 2
  /\ probe[1] = "pending"
  /\ outcome[1] = "timeout"
  /\ timeout[1] = "fired"
  /\ invoked[2] = 1
  /\ probe[2] = "pending"
  /\ timeout[2] = "pending"

====
